---- MODULE Spec2Model ----
(***************************************************************************)
(* A model of src/webscrapp.py: the retrying fetch primitive get(), the    *)
(* adapter registry, the site adapters' iter_courses(), the run controller *)
(* (run_one / run_all), the CSV sink and the command line entry main().    *)
(*                                                                         *)
(* Text is modelled as a sequence of tokens (<<"/", "course">> is the href *)
(* "/course"), so that prefix tests, concatenation and substring tests are *)
(* computed and not assumed.                                               *)
(***************************************************************************)
EXTENDS Integers, Sequences, FiniteSets, TLC

VARIABLES
    \* ---- get(): one call of the fetch primitive under the retry decorator
    gstate,          \* "attempt" | "sleep" | "returned" | "raised"
    attempt_number,  \* transport attempts made so far by this call
    outcomes,        \* what the transport did at each attempt, in order
    slept,           \* the waits slept between attempts, in order
    gresult,         \* the response returned, or the exception raised
    \* ---- the registry and one command line invocation
    ADAPTERS,        \* the registry dict, as its items in insertion order
    reg_calls,       \* the keys of the register() calls made, in call order
    reg_insts,       \* the instances those calls registered, in call order
    listing,         \* the last listing / lookup made of the registry
    args,            \* the parsed command line
    pc,              \* where main() is
    loop_i,          \* run_all: index of the next registry item
    courses,         \* the records collected so far
    invoked,         \* keys whose iter_courses() was invoked, in order
    warnings,        \* logging.warning calls made by run_all
    stdout,          \* lines printed
    stderr,          \* lines written to stderr when the process dies
    exit_code,       \* the process exit code (NoExit while running)
    fs,              \* the file system: directories and files that exist
    \* ---- one adapter's iter_courses() on one web
    ad_key,          \* the adapter under test
    web,             \* what the site serves
    produced         \* the outcome of list(adapter.iter_courses())

getVars == <<gstate, attempt_number, outcomes, slept, gresult>>
regVars == <<ADAPTERS, reg_calls, reg_insts, listing>>
runVars == <<args, pc, loop_i, courses, invoked, warnings, stdout, stderr, exit_code, fs>>
adVars  == <<ad_key, web, produced>>
vars    == <<getVars, regVars, runVars, adVars>>

Max(a, b) == IF a >= b THEN a ELSE b
Min(a, b) == IF a <= b THEN a ELSE b

RECURSIVE Pow(_, _)
Pow(b, e) == IF e = 0 THEN 1 ELSE b * Pow(b, e - 1)

Range(s) == {s[i] : i \in 1..Len(s)}

(***************************************************************************)
(* The fetch primitive: get(url) under                                     *)
(*   @retry(stop=stop_after_attempt(3),                                    *)
(*          wait=wait_exponential(multiplier=1, min=1, max=8),             *)
(*          retry=retry_if_exception_type((RequestException, ScrapeError)))*)
(***************************************************************************)
STOP_AFTER_ATTEMPT == 3
WAIT_MULTIPLIER == 1
WAIT_MIN == 1
WAIT_MAX == 8
HTTP_ERROR_FROM == 400

NoExc == "-"

\* What SESSION.get(url, timeout=30) can do at one attempt: answer with a
\* status code, or raise.  Timeout and ConnectionError are RequestExceptions;
\* OtherError stands for an exception that is neither that nor ScrapeError.
Statuses == {200, 399, 400, 503}
TransportExceptions == {"ConnectionError", "Timeout", "OtherError"}
Response(s) == [kind |-> "response", status |-> s, exc |-> NoExc]
Raises(e) == [kind |-> "exception", status |-> 0, exc |-> e]
TransportOutcomes == {Response(s) : s \in Statuses} \cup {Raises(e) : e \in TransportExceptions}

\* The exception classes get() is told to retry on, with their subclasses.
RetriedClasses == {"RequestException", "ScrapeError"}
BaseClass(e) ==
    CASE e \in {"ConnectionError", "Timeout"} -> "RequestException"
      [] OTHER -> e

StatusIsErrorOff(status) == status > HTTP_ERROR_FROM
\* if resp.status_code >= 400: raise ScrapeError
StatusIsError(status) == status >= HTTP_ERROR_FROM

\* The exception one execution of get()'s body ends with (NoExc: it returns).
BodyException(o) ==
    IF o.kind = "exception" THEN o.exc
    ELSE IF StatusIsError(o.status) THEN "ScrapeError"
    ELSE NoExc

RetryIfExceptionType(e) == BaseClass(e) \in RetriedClasses

StopAfterAttemptLate(n) == n >= STOP_AFTER_ATTEMPT + 1
\* stop_after_attempt(3)
StopAfterAttempt(n) == n >= STOP_AFTER_ATTEMPT

\* wait_exponential(multiplier=1, min=1, max=8), after attempt n has failed
WaitExponential(n) ==
    Max(Max(0, WAIT_MIN), Min(WAIT_MULTIPLIER * Pow(2, n - 1), WAIT_MAX))

\* With no reraise=True, the decorator raises its own RetryError, which
\* carries the last attempt's exception.
RetryError(last) == [kind |-> "exception", status |-> 0, exc |-> "RetryError", last |-> last]
Reraised(e) == [kind |-> "exception", status |-> 0, exc |-> e, last |-> NoExc]
Returned(o) == [kind |-> "response", status |-> o.status, exc |-> NoExc, last |-> NoExc]
NoResult == [kind |-> "none", status |-> 0, exc |-> NoExc, last |-> NoExc]

GetInit ==
    /\ gstate = "attempt"
    /\ attempt_number = 0
    /\ outcomes = <<>>
    /\ slept = <<>>
    /\ gresult = NoResult

\* One attempt: the body of get() runs once and the decorator decides.
GetAttempt ==
    /\ gstate = "attempt"
    /\ \E o \in TransportOutcomes :
         LET n == attempt_number + 1
             e == BodyException(o)
         IN  /\ attempt_number' = n
             /\ outcomes' = Append(outcomes, o)
             /\ IF e = NoExc
                  THEN gstate' = "returned" /\ gresult' = Returned(o)
                ELSE IF ~RetryIfExceptionType(e)
                  THEN gstate' = "raised" /\ gresult' = Reraised(e)
                ELSE IF StopAfterAttempt(n)
                  THEN gstate' = "raised" /\ gresult' = RetryError(e)
                ELSE gstate' = "sleep" /\ gresult' = gresult
    /\ UNCHANGED <<slept, regVars, runVars, adVars>>

\* The decorator sleeps wait_exponential(...) and tries again.
GetSleep ==
    /\ gstate = "sleep"
    /\ slept' = Append(slept, WaitExponential(attempt_number))
    /\ gstate' = "attempt"
    /\ UNCHANGED <<attempt_number, outcomes, gresult, regVars, runVars, adVars>>

(***************************************************************************)
(* The data model: a Course.  Text values are token sequences; None is the *)
(* Python None of an optional field that was not extracted.                *)
(***************************************************************************)
None == <<"<None>">>

FIELDS == <<"course_id", "course_title", "url", "is_paid", "price", "num_subscribers",
            "num_reviews", "num_lectures", "level", "content_duration",
            "published_timestamp", "subject", "provider", "language">>

\* Course(course_id=..., course_title=..., url=..., provider=..., subject=..., language=...)
Course(id, title, url, provider, subject, language) ==
    [course_id |-> id, course_title |-> title, url |-> url, is_paid |-> None,
     price |-> None, num_subscribers |-> None, num_reviews |-> None,
     num_lectures |-> None, level |-> None, content_duration |-> None,
     published_timestamp |-> None, subject |-> subject, provider |-> provider,
     language |-> language]

(***************************************************************************)
(* Adapter instances as the run controller sees them: a key, a display     *)
(* name, the answer of is_allowed(), and what iterating iter_courses()     *)
(* does: it yields `yields` and then either finishes or raises `raises`.   *)
(***************************************************************************)
MaxAdapters == 2
MaxRegCalls == 4

BASE_KEY == "base"
RunKeys == {"a", "b", BASE_KEY}
DisplayNameOf(k) == <<"Site", k>>
AdapterExceptions == {"RetryError", "ConnectionError", "KeyboardInterrupt"}

U1 == <<"https://shared.example", "/", "course", "/", "1">>
U2 == <<"https://shared.example", "/", "course", "/", "2">>
TwoCourses(k) ==
    << Course(U1, <<"One">>, U1, DisplayNameOf(k), None, None),
       Course(U2, <<"Two">>, U2, DisplayNameOf(k), None, None) >>

ClassesOf(k) ==
    { [key |-> k, display_name |-> DisplayNameOf(k), allowed |-> al,
       yields |-> ys, raises |-> ex] :
         al \in BOOLEAN, ys \in {<<>>, TwoCourses(k)}, ex \in {NoExc} \cup AdapterExceptions }
AdapterClasses == UNION {ClassesOf(k) : k \in RunKeys}

NoAdapter == [key |-> "<absent>", display_name |-> None, allowed |-> FALSE,
              yields |-> <<>>, raises |-> NoExc]

\* list(adapter.iter_courses()): the items, or the exception that ends it.
\* list() keeps nothing of a generator that raises.
Materialize(inst) ==
    IF inst.raises = NoExc
      THEN [items |-> inst.yields, exc |-> NoExc]
      ELSE [items |-> <<>>, exc |-> inst.raises]

(***************************************************************************)
(* The registry: ADAPTERS, a dict, kept as its items in insertion order.   *)
(***************************************************************************)
KeysOf(reg) == [i \in 1..Len(reg) |-> reg[i].key]
HasKey(reg, k) == \E i \in 1..Len(reg) : reg[i].key = k
IndexOf(reg, k) == CHOOSE i \in 1..Len(reg) : reg[i].key = k

\* A dict that moves a re-assigned key to the end.
RegisterMovesToEnd(reg, inst) ==
    Append(SelectSeq(reg, LAMBDA e : e.key # inst.key), inst)
\* A registry that keeps the entry a key already has.
RegisterKeepsFirst(reg, inst) == IF HasKey(reg, inst.key) THEN reg ELSE Append(reg, inst)
\* register(adapter_cls): ADAPTERS[inst.key] = inst
Register(reg, inst) ==
    IF HasKey(reg, inst.key)
      THEN [reg EXCEPT ![IndexOf(reg, inst.key)] = inst]
      ELSE Append(reg, inst)

\* A lookup that falls back to the first entry.
DictGetOrFirst(reg, k) ==
    IF HasKey(reg, k) THEN reg[IndexOf(reg, k)] ELSE IF reg # <<>> THEN reg[1] ELSE NoAdapter
\* ADAPTERS.get(key)
DictGet(reg, k) == IF HasKey(reg, k) THEN reg[IndexOf(reg, k)] ELSE NoAdapter

RECURSIVE RegisterAll(_)
RegisterAll(cs) ==
    IF cs = <<>> THEN <<>>
    ELSE Register(RegisterAll(SubSeq(cs, 1, Len(cs) - 1)), cs[Len(cs)])

\* for k, a in ADAPTERS.items(): if k == "base": continue; print(k, a.display_name)
ListSitesNoSkip(reg) == [i \in 1..Len(reg) |-> <<reg[i].key, reg[i].display_name>>]
ListSites(reg) ==
    LET kept == SelectSeq(reg, LAMBDA e : e.key # BASE_KEY)
    IN  [i \in 1..Len(kept) |-> <<kept[i].key, kept[i].display_name>>]

NoListing == [op |-> "none", key |-> "", keys |-> <<>>, found |-> FALSE]

RegistryInit ==
    /\ ADAPTERS = <<>>
    /\ reg_calls = <<>>
    /\ reg_insts = <<>>
    /\ listing = NoListing

\* One @register at import time.
RegisterCall ==
    /\ listing = NoListing
    /\ Len(reg_calls) < MaxRegCalls
    /\ \E cls \in {c \in AdapterClasses : c.raises = NoExc} :
         /\ ADAPTERS' = Register(ADAPTERS, cls)
         /\ reg_calls' = Append(reg_calls, cls.key)
         /\ reg_insts' = Append(reg_insts, cls)
    /\ UNCHANGED <<listing, getVars, runVars, adVars>>

\* The registry listed as --list-sites lists it.
ListCall ==
    /\ listing = NoListing
    /\ listing' = [op |-> "list", key |-> "",
                   keys |-> [i \in 1..Len(ListSites(ADAPTERS)) |-> ListSites(ADAPTERS)[i][1]],
                   found |-> FALSE]
    /\ UNCHANGED <<ADAPTERS, reg_calls, reg_insts, getVars, runVars, adVars>>

\* ADAPTERS.get(key) as run_one makes it.
LookupKeys == RunKeys \cup {"nonexistent"}
LookupCall ==
    /\ listing = NoListing
    /\ \E k \in LookupKeys :
         listing' = [op |-> "get", key |-> k, keys |-> <<>>,
                     found |-> DictGet(ADAPTERS, k) # NoAdapter]
    /\ UNCHANGED <<ADAPTERS, reg_calls, reg_insts, getVars, runVars, adVars>>

(***************************************************************************)
(* The sink: write_csv(rows, out_path).  A path is its components.         *)
(***************************************************************************)
\* os.path.dirname(out_path): "" for a path with no directory component
Dirname(path) == SubSeq(path, 1, Len(path) - 1)

\* The characters the csv dialect ("excel") gives a meaning to; each is a
\* token of its own in a text.
DELIMITER == ","
QUOTECHAR == "\""
CR == "\r"
LF == "\n"
LINETERMINATOR == <<CR, LF>>

\* A None written as "None".
CsvCellNoneAsText(v) == IF v = None THEN <<"None">> ELSE v
\* csv.DictWriter writes a None as the empty string.
CsvCell(v) == IF v = None THEN <<>> ELSE v

\* QUOTE_MINIMAL: a field is quoted when it holds the delimiter, the quote
\* character or a character of the line terminator.
NeedsQuote(cell) ==
    \E i \in 1..Len(cell) : cell[i] \in {DELIMITER, QUOTECHAR} \cup Range(LINETERMINATOR)
\* doublequote: each quote character inside a quoted field is written twice
RECURSIVE DoubleQuotes(_)
DoubleQuotes(cell) ==
    IF cell = <<>> THEN <<>>
    ELSE (IF Head(cell) = QUOTECHAR THEN <<QUOTECHAR, QUOTECHAR>> ELSE <<Head(cell)>>)
           \o DoubleQuotes(Tail(cell))
CsvField(cell) ==
    IF NeedsQuote(cell) THEN <<QUOTECHAR>> \o DoubleQuotes(cell) \o <<QUOTECHAR>> ELSE cell

\* writer.writerow(cells): the fields, delimiters between them, the terminator
RECURSIVE JoinFields(_)
JoinFields(cells) ==
    IF cells = <<>> THEN <<>>
    ELSE IF Len(cells) = 1 THEN CsvField(cells[1])
    ELSE CsvField(Head(cells)) \o <<DELIMITER>> \o JoinFields(Tail(cells))
CsvLine(cells) == JoinFields(cells) \o LINETERMINATOR

\* w.writeheader()
CsvHeader == CsvLine([i \in 1..Len(FIELDS) |-> <<FIELDS[i]>>])
\* w.writerow({k: getattr(c, k) for k in FIELDS})
CsvRow(c) == CsvLine([i \in 1..Len(FIELDS) |-> CsvCell(c[FIELDS[i]])])
\* The text of the file write_csv(rows, out_path) leaves.
RECURSIVE CsvRows(_)
CsvRows(rows) == IF rows = <<>> THEN <<>> ELSE CsvRow(Head(rows)) \o CsvRows(Tail(rows))
CsvFile(rows) == CsvHeader \o CsvRows(rows)

EmptyFs == [dirs |-> {}, files |-> {}]
\* os.makedirs(d, exist_ok=True) raises FileNotFoundError for d = "".
MakedirsFails(d) == d = <<>>
Makedirs(f, d) == [f EXCEPT !.dirs = @ \cup {SubSeq(d, 1, n) : n \in 1..Len(d)}]
WriteFile(f, path, content) ==
    [f EXCEPT !.files = {x \in @ : x.path # path} \cup {[path |-> path, content |-> content]}]

\* Lists of Records handed to write_csv: titles with the characters the csv
\* dialect treats specially, optional fields that are None, empty or set.
MaxRows == 3
SinkTitles ==
    { <<"Intro">>, <<"Data", DELIMITER, " AI">>, <<"The ", QUOTECHAR, "Web", QUOTECHAR>>,
      <<"Line1", CR, LF, "Line2">> }
SinkOptionals == { <<None, None>>, <<<<"K12">>, None>>, <<None, <<>>>> }
SinkRecords ==
    { Course(<<"https://x.example", "/", "c">>, t, <<"https://x.example", "/", "c">>,
             <<"X">>, o[1], o[2]) : t \in SinkTitles, o \in SinkOptionals }
RecordLists == UNION {[1..n -> SinkRecords] : n \in 0..MaxRows}

(***************************************************************************)
(* The command line and the run controller.                                *)
(***************************************************************************)
NoExit == -1
NoSite == [given |-> FALSE, value |-> ""]
Site(v) == [given |-> TRUE, value |-> v]
\* Python truthiness of args.site: None and "" are false.
Truthy(site) == site.given /\ site.value # ""

SiteChoices == {NoSite, Site(""), Site("a"), Site(BASE_KEY), Site("zz")}
OutChoices == {<<"data", "courses.csv">>, <<"courses.csv">>}
ArgSpace == [site : SiteChoices, all : BOOLEAN, list_sites : BOOLEAN, out : OutChoices]

Registries ==
    {RegisterAll(cs) : cs \in UNION {[1..n -> AdapterClasses] : n \in 0..MaxAdapters}}

MSG_BOTH == "Use either --site or --all, not both."
MSG_NEITHER == "Please specify --site <key> or --all. Use --list-sites to see keys."
MSG_UNKNOWN == "Unknown site key: {key}. Use --list-sites to see options."

\* raise SystemExit(msg): the message on stderr, exit status 1.
SystemExitLines(msg) == <<msg>>
\* An exception nobody catches: the interpreter prints the traceback.
TracebackLines(exc) == <<"Traceback (most recent call last):", "  File webscrapp.py, in main", exc>>

Line(text, key, name, n) == [text |-> text, key |-> key, name |-> name, n |-> n]
ListLines(reg) ==
    <<Line("Available site keys:", "", <<>>, 0)>> \o
    [i \in 1..Len(ListSites(reg)) |-> Line("  {k:20s} -> {a.display_name}", ListSites(reg)[i][1], ListSites(reg)[i][2], 0)]

\* An exception is named by its class; a SystemExit also by its argument:
\* "SystemExit" is SystemExit(<a message>), "SystemExit()" has no argument,
\* "SystemExit(3)" has the status 3.
ExcClass(exc) == IF exc \in {"SystemExit", "SystemExit()", "SystemExit(3)"} THEN "SystemExit" ELSE exc

\* The status of a process that an uncaught KeyboardInterrupt ends: the
\* interpreter prints the traceback and dies of SIGINT.
EXIT_SIGINT == -2
\* How the interpreter ends on an exception nobody catches: what it writes on
\* stderr and the exit status.
Uncaught(exc) ==
    CASE exc = "SystemExit" -> [stderr |-> SystemExitLines(exc), exit |-> 1]
      [] exc = "SystemExit()" -> [stderr |-> <<>>, exit |-> 0]
      [] exc = "SystemExit(3)" -> [stderr |-> <<>>, exit |-> 3]
      [] exc = "KeyboardInterrupt" -> [stderr |-> TracebackLines(exc), exit |-> EXIT_SIGINT]
      [] OTHER -> [stderr |-> TracebackLines(exc), exit |-> 1]

\* The classes `except Exception` does not catch: BaseException itself and
\* its subclasses outside Exception.
NonExceptionClasses ==
    {"BaseException", "BaseExceptionGroup", "CancelledError", "GeneratorExit",
     "KeyboardInterrupt", "SystemExit"}
RunAllCatches(exc) == ExcClass(exc) \notin NonExceptionClasses

\* An extend that drops a record whose course_id was already collected.
ExtendDedup(all_courses, items) ==
    all_courses \o SelectSeq(items, LAMBDA c : \A j \in 1..Len(all_courses) : all_courses[j].course_id # c.course_id)
\* all_courses.extend(items)
Extend(all_courses, items) == all_courses \o items

RunInit ==
    /\ args \in ArgSpace
    /\ pc = "main"
    /\ loop_i = 0
    /\ courses = <<>>
    /\ invoked = <<>>
    /\ warnings = <<>>
    /\ stdout = <<>>
    /\ stderr = <<>>
    /\ exit_code = NoExit
    /\ fs = EmptyFs

Die(lines) ==
    /\ pc' = "exited"
    /\ stderr' = lines
    /\ exit_code' = 1

\* The exception exc leaves main(): the process ends as Uncaught(exc) says.
Propagate(exc) ==
    /\ pc' = "exited"
    /\ stderr' = Uncaught(exc).stderr
    /\ exit_code' = Uncaught(exc).exit

\* Which branch main() takes after parse_args().
MainSkipsConflictCheck(a) ==
    IF a.list_sites THEN "list"
    ELSE IF ~Truthy(a.site) /\ ~a.all THEN "usage_neither"
    ELSE IF Truthy(a.site) THEN "run_one"
    ELSE "run_all"
MainBranch(a) ==
    IF a.list_sites THEN "list"
    ELSE IF Truthy(a.site) /\ a.all THEN "usage_both"
    ELSE IF ~Truthy(a.site) /\ ~a.all THEN "usage_neither"
    ELSE IF Truthy(a.site) THEN "run_one"
    ELSE "run_all"

\* main() up to the call of run_one / run_all.
Main ==
    /\ pc = "main"
    /\ LET b == MainBranch(args)
       IN  CASE b = "list" ->
                  /\ stdout' = ListLines(ADAPTERS)
                  /\ pc' = "exited"
                  /\ exit_code' = 0
                  /\ UNCHANGED <<stderr, loop_i>>
             [] b = "usage_both" ->
                  /\ Die(SystemExitLines(MSG_BOTH))
                  /\ UNCHANGED <<stdout, loop_i>>
             [] b = "usage_neither" ->
                  /\ Die(SystemExitLines(MSG_NEITHER))
                  /\ UNCHANGED <<stdout, loop_i>>
             [] b = "run_one" ->
                  /\ pc' = "run_one"
                  /\ UNCHANGED <<stdout, stderr, exit_code, loop_i>>
             [] OTHER ->
                  /\ pc' = "run_all"
                  /\ loop_i' = 1
                  /\ UNCHANGED <<stdout, stderr, exit_code>>
    /\ UNCHANGED <<args, courses, invoked, warnings, fs, getVars, regVars, adVars>>

\* run_one(args.site)
RunOne ==
    /\ pc = "run_one"
    /\ LET adapter == DictGet(ADAPTERS, args.site.value)
           m == Materialize(adapter)
       IN  IF adapter = NoAdapter
             THEN /\ Die(SystemExitLines(MSG_UNKNOWN))
                  /\ UNCHANGED <<courses, invoked>>
           ELSE IF m.exc # NoExc
             THEN /\ Propagate(m.exc)
                  /\ invoked' = Append(invoked, adapter.key)
                  /\ UNCHANGED courses
           ELSE /\ pc' = "write"
                /\ invoked' = Append(invoked, adapter.key)
                /\ courses' = m.items
                /\ UNCHANGED <<stderr, exit_code>>
    /\ UNCHANGED <<args, loop_i, warnings, stdout, fs, getVars, regVars, adVars>>

\* run_all(): one iteration of  for key, adapter in ADAPTERS.items()
RunAllIter ==
    /\ pc = "run_all"
    /\ loop_i <= Len(ADAPTERS)
    /\ LET adapter == ADAPTERS[loop_i]
           m == Materialize(adapter)
       IN  IF adapter.key = BASE_KEY
             THEN /\ loop_i' = loop_i + 1
                  /\ UNCHANGED <<pc, courses, invoked, warnings, stderr, exit_code>>
           ELSE IF m.exc = NoExc
             THEN /\ loop_i' = loop_i + 1
                  /\ invoked' = Append(invoked, adapter.key)
                  /\ courses' = Extend(courses, m.items)
                  /\ UNCHANGED <<pc, warnings, stderr, exit_code>>
           ELSE IF RunAllCatches(m.exc)
             THEN /\ loop_i' = loop_i + 1
                  /\ invoked' = Append(invoked, adapter.key)
                  /\ warnings' = Append(warnings, [name |-> adapter.display_name, err |-> m.exc])
                  /\ UNCHANGED <<pc, courses, stderr, exit_code>>
           ELSE /\ Propagate(m.exc)
                /\ invoked' = Append(invoked, adapter.key)
                /\ UNCHANGED <<loop_i, courses, warnings>>
    /\ UNCHANGED <<args, stdout, fs, getVars, regVars, adVars>>

\* run_all(): return all_courses
RunAllReturn ==
    /\ pc = "run_all"
    /\ loop_i > Len(ADAPTERS)
    /\ pc' = "write"
    /\ UNCHANGED <<args, loop_i, courses, invoked, warnings, stdout, stderr, exit_code, fs,
                   getVars, regVars, adVars>>

\* write_csv(courses, args.out); print(f"Wrote {len(courses)} rows -> {args.out}")
WriteCsv ==
    /\ pc = "write"
    /\ IF MakedirsFails(Dirname(args.out))
         THEN /\ Propagate("FileNotFoundError")
              /\ UNCHANGED <<fs, stdout>>
         ELSE /\ fs' = WriteFile(Makedirs(fs, Dirname(args.out)), args.out, CsvFile(courses))
              /\ stdout' = Append(stdout, Line("Wrote {n} rows -> {out}", "", args.out, Len(courses)))
              /\ pc' = "exited"
              /\ exit_code' = 0
              /\ UNCHANGED stderr
    /\ UNCHANGED <<args, loop_i, courses, invoked, warnings, getVars, regVars, adVars>>

(***************************************************************************)
(* The site adapters.  An href, a URL, a text are token sequences; a token *)
(* is a piece of text that the adapters' tests never cut.                  *)
(***************************************************************************)
MaxAnchors == 2

\* (token, word) pairs with the word a substring of the lower-cased token, for
\* the tokens hrefs are made of here and the words of the adapters' patterns.
SubstringPairs ==
    { <<"https://learning.gov.et", "learn">>,
      <<"https://learnethiopia.com", "learn">>,
      <<"https://kubayalearning.com", "learn">>,
      <<"https://elearnethiopia.example", "exam">>,
      <<"https://elearnethiopia.example", "learn">>,
      <<"https://elearning.aau.edu.et", "learn">>,
      <<"https://elearnafrica.example", "exam">>,
      <<"https://elearnafrica.example", "learn">>,
      <<"https://infonetcollege.example", "exam">>,
      <<"https://ennlite.example", "exam">>,
      <<"https://gxcamp.example", "exam">>,
      <<"https://learnup.example", "exam">>,
      <<"https://learnup.example", "learn">>,
      <<"https://5millioncoders.example", "exam">>,
      <<"https://hagerly.example", "exam">>,
      <<"https://haleta.example", "exam">>,
      <<"https://zemen-technology.example", "exam">>,
      <<"https://evil.example", "exam">>,
      <<"course", "course">>,
      <<"Training", "ai">>,
      <<"Training", "training">>,
      <<"courses", "course">> }

\* Two display names hold a character outside ASCII; each is a token of its
\* own here, written as the escape of its code point: U+2011 NON-BREAKING
\* HYPHEN between "AAU" and "eLearnAfrica LMS", U+2019 RIGHT SINGLE QUOTATION
\* MARK between "St. Mary" and "s University Distance Education".
U2011 == "\\u2011"
U2019 == "\\u2019"

\* The adapter classes of the file, in the order their @register runs.
SourceAdapters ==
    <<
      [key |-> "learninggov", display_name |-> <<"Learning.gov.et">>, base_url |-> "https://learning.gov.et", shape |-> "crawl_sorted",
       guarded |-> FALSE, pattern |-> {<<"course">>, <<"training">>, <<"program">>, <<"module">>},
       subject |-> None, language |-> None],
      [key |-> "learnethiopia", display_name |-> <<"LearnEthiopia.com">>, base_url |-> "https://learnethiopia.com", shape |-> "catalog_detail",
       guarded |-> FALSE, pattern |-> {<<"/", "course", "/">>, <<"/", "courses", "/">>, <<"/", "program", "/">>},
       subject |-> None, language |-> None],
      [key |-> "eduhubplc", display_name |-> <<"EDUHUB Technology Solutions">>, base_url |-> "https://eduhubplc.com", shape |-> "links",
       guarded |-> FALSE, pattern |-> {<<"course">>, <<"training">>, <<"solution">>, <<"product">>},
       subject |-> None, language |-> None],
      [key |-> "alx", display_name |-> <<"ALX Africa">>, base_url |-> "https://www.alxafrica.com", shape |-> "links",
       guarded |-> FALSE, pattern |-> {<<"program">>, <<"course">>, <<"software">>, <<"data">>, <<"cloud">>, <<"ai">>},
       subject |-> None, language |-> None],
      [key |-> "smartethio", display_name |-> <<"SmartEthio">>, base_url |-> "https://smartethio.com", shape |-> "links",
       guarded |-> TRUE, pattern |-> {<<"grade">>, <<"subject">>, <<"course">>, <<"lesson">>, <<"exam">>},
       subject |-> <<"K12">>, language |-> None],
      [key |-> "afriwork", display_name |-> <<"Afriwork">>, base_url |-> "https://afriwork.com", shape |-> "links",
       guarded |-> TRUE, pattern |-> {<<"learn">>, <<"academy">>, <<"blog">>, <<"training">>, <<"skills">>},
       subject |-> None, language |-> None],
      [key |-> "kubaya", display_name |-> <<"Kubaya Learning">>, base_url |-> "https://kubayalearning.com", shape |-> "links",
       guarded |-> FALSE, pattern |-> {<<"course">>, <<"lesson">>, <<"learn">>, <<"levels">>, <<"amharic">>},
       subject |-> None, language |-> <<"Amharic">>],
      [key |-> "staffordglobal", display_name |-> <<"Stafford Global">>, base_url |-> "https://www.staffordglobal.org", shape |-> "links",
       guarded |-> FALSE, pattern |-> {<<"program">>, <<"course">>, <<"mba">>, <<"msc">>, <<"pgce">>, <<"degree">>},
       subject |-> None, language |-> None],
      [key |-> "elearneth", display_name |-> <<"eLearn Ethiopia">>, base_url |-> "https://elearnethiopia.example", shape |-> "moodle",
       guarded |-> FALSE, pattern |-> {},
       subject |-> None, language |-> None],
      [key |-> "aau", display_name |-> <<"AAU e-Learning">>, base_url |-> "https://elearning.aau.edu.et", shape |-> "links",
       guarded |-> TRUE, pattern |-> {<<"course">>, <<"program">>, <<"catalog">>, <<"category">>},
       subject |-> None, language |-> None],
      [key |-> "aau_elearnafrica", display_name |-> <<"AAU", U2011, "eLearnAfrica LMS">>, base_url |-> "https://elearnafrica.example", shape |-> "links",
       guarded |-> TRUE, pattern |-> {<<"course">>, <<"program">>, <<"catalog">>, <<"category">>},
       subject |-> None, language |-> None],
      [key |-> "stmarys", display_name |-> <<"St. Mary", U2019, "s University Distance Education">>, base_url |-> "https://smuc.edu.et", shape |-> "links",
       guarded |-> TRUE, pattern |-> {<<"distance">>, <<"program">>, <<"course">>, <<"degree">>},
       subject |-> None, language |-> None],
      [key |-> "ili", display_name |-> <<"International Leadership Institute">>, base_url |-> "https://ili.edu.et", shape |-> "links",
       guarded |-> TRUE, pattern |-> {<<"program">>, <<"course">>, <<"diploma">>, <<"degree">>, <<"certificate">>},
       subject |-> None, language |-> None],
      [key |-> "infonet", display_name |-> <<"Infonet College">>, base_url |-> "https://infonetcollege.example", shape |-> "links",
       guarded |-> TRUE, pattern |-> {<<"short-course">>, <<"training">>, <<"program">>, <<"course">>},
       subject |-> None, language |-> None],
      [key |-> "microlink", display_name |-> <<"Microlink IT College">>, base_url |-> "https://microlinkcolleges.net", shape |-> "links",
       guarded |-> TRUE, pattern |-> {<<"cisco">>, <<"ict">>, <<"program">>, <<"course">>, <<"training">>},
       subject |-> None, language |-> None],
      [key |-> "ennlite", display_name |-> <<"Ennlite Academy">>, base_url |-> "https://ennlite.example", shape |-> "links",
       guarded |-> TRUE, pattern |-> {<<"course">>, <<"training">>, <<"graphic">>, <<"marketing">>, <<"web">>, <<"app">>},
       subject |-> None, language |-> None],
      [key |-> "gxcamp", display_name |-> <<"GxCamp">>, base_url |-> "https://gxcamp.example", shape |-> "links",
       guarded |-> TRUE, pattern |-> {<<"course">>, <<"ict">>, <<"english">>, <<"web">>, <<"amharic">>},
       subject |-> None, language |-> None],
      [key |-> "learnup", display_name |-> <<"LearnUp Ethiopia">>, base_url |-> "https://learnup.example", shape |-> "stub",
       guarded |-> FALSE, pattern |-> {},
       subject |-> None, language |-> None],
      [key |-> "5mec", display_name |-> <<"5 Million Ethiopian Coders">>, base_url |-> "https://5millioncoders.example", shape |-> "stub",
       guarded |-> FALSE, pattern |-> {},
       subject |-> None, language |-> None],
      [key |-> "hagerly", display_name |-> <<"Hagerly">>, base_url |-> "https://hagerly.example", shape |-> "stub",
       guarded |-> FALSE, pattern |-> {},
       subject |-> None, language |-> None],
      [key |-> "haleta", display_name |-> <<"Haleta App">>, base_url |-> "https://haleta.example", shape |-> "stub",
       guarded |-> FALSE, pattern |-> {},
       subject |-> None, language |-> None],
      [key |-> "zementechnologies", display_name |-> <<"Zemen Technologies">>, base_url |-> "https://zemen-technology.example", shape |-> "stub",
       guarded |-> FALSE, pattern |-> {},
       subject |-> None, language |-> None]
    >>

AdapterOf(k) == SourceAdapters[CHOOSE i \in 1..Len(SourceAdapters) : SourceAdapters[i].key = k]
SourceKeys == {SourceAdapters[i].key : i \in 1..Len(SourceAdapters)}

EVIL == "https://evil.example"
H_EMPTY == <<>>
H_REL_COURSE == <<"/", "course", "/", "intro">>
H_REL_TRAINING == <<"/", "Training">>
H_REL_ABOUT == <<"/", "about">>
H_ABS_COURSE(b) == <<b, "/", "course", "/", "intro">>
H_EVIL == <<EVIL, "/", "course", "/", "1">>
H_EVIL_REF(b) == <<EVIL, "/", "?next=", b, "/", "course", "/">>
HrefUniverse(b) ==
    {H_EMPTY, H_REL_COURSE, H_REL_TRAINING, H_REL_ABOUT, H_ABS_COURSE(b), H_EVIL, H_EVIL_REF(b)}

\* The hrefs above in the order Python's sorted() gives their text, for the
\* base URL of the one adapter that sorts (https://learning.gov.et).
PythonOrder(b) ==
    <<H_EMPTY, H_REL_TRAINING, H_REL_ABOUT, H_REL_COURSE, H_EVIL_REF(b), H_EVIL, H_ABS_COURSE(b)>>
Sorted(links, b) == SelectSeq(PythonOrder(b), LAMBDA h : h \in links)

Texts == {<<>>, <<"Intro">>}
Anchor(cls, has, href, text) == [cls |-> cls, has_href |-> has, href |-> href, text |-> text]
PlainAnchors(b) == {Anchor("", TRUE, h, t) : h \in HrefUniverse(b), t \in Texts}
ClassAnchors ==
    { Anchor("coursebox", TRUE, H_REL_COURSE, <<"Intro">>),
      Anchor("coursename", FALSE, <<>>, <<"Intro">>),
      Anchor("coursename", TRUE, H_EVIL, <<>>) }
AnchorsOf(a) == PlainAnchors(a.base_url) \cup (IF a.shape = "moodle" THEN ClassAnchors ELSE {})
AnchorLists(a) == UNION {[1..n -> AnchorsOf(a)] : n \in 0..MaxAnchors}

\* What self.soup(url) gives: a parsed page, or the exception it raises.
\* self.soup(url) raises what get(url) raises: RetryError once the retries of
\* a RequestException / ScrapeError are used up, or, after a single attempt
\* and as itself, an exception that get() does not retry (OtherError).
SoupErrors == {"RetryError", "OtherError"}
PageFails(e) == [ok |-> FALSE, anchors |-> <<>>, heading |-> None, exc |-> e]
PageFail == PageFails("RetryError")
Catalog(anchors) == [ok |-> TRUE, anchors |-> anchors, heading |-> None, exc |-> NoExc]
Detail(heading) == [ok |-> TRUE, anchors |-> <<>>, heading |-> heading, exc |-> NoExc]
\* A detail page has no heading element, an empty one, or one with text.
Headings == {None, <<>>, <<"Heading">>}
DetailOutcomes == {PageFails(e) : e \in SoupErrors} \cup {Detail(h) : h \in Headings}

\* The second catalog URL of the two adapters that read two.
AltUrl(a) ==
    CASE a.shape = "catalog_detail" -> <<a.base_url, "/", "courses">>
      [] a.shape = "moodle" -> <<a.base_url, "/", "course", "/", "index.php">>
      [] OTHER -> <<>>

NoWeb == [home |-> PageFail, alt |-> PageFail, intro |-> PageFail, other |-> PageFail]
\* What the second catalog URL serves: nothing, an empty page, the home page again.
AltKinds(a) == IF a.shape \in {"moodle", "catalog_detail"} THEN {"fail", "empty", "same"} ELSE {"fail"}
AltPage(kind, home) ==
    CASE kind = "empty" -> Catalog(<<>>)
      [] kind = "same" -> home
      [] OTHER -> PageFail
IntroChoices(a) == IF a.shape \in {"crawl_sorted", "catalog_detail"} THEN DetailOutcomes ELSE {PageFail}
OtherChoices(a) ==
    IF a.shape \in {"crawl_sorted", "catalog_detail"} THEN {PageFail, Detail(<<"Heading">>)} ELSE {PageFail}
WebOf(home, kind, d, e) == [home |-> home, alt |-> AltPage(kind, home), intro |-> d, other |-> e]

\* self.soup(url) on the web w
Soup(a, w, url) ==
    IF url = <<a.base_url>> THEN w.home
    ELSE IF url = AltUrl(a) THEN w.alt
    ELSE IF "intro" \in Range(url) THEN w.intro
    ELSE w.other

Lower(t) == CASE t = "Training" -> "training" [] OTHER -> t

\* needle in hay
ContainsSeq(hay, needle) ==
    \E i \in 0..(Len(hay) - Len(needle)) : SubSeq(hay, i + 1, i + Len(needle)) = needle

\* re.search(pattern, href, re.I): a one-word alternative is found inside a
\* token; an alternative with slashes is found as consecutive tokens.
AltFound(alt, href) ==
    IF Len(alt) = 1
      THEN \E i \in 1..Len(href) : Lower(href[i]) = alt[1] \/ <<href[i], alt[1]>> \in SubstringPairs
      ELSE ContainsSeq([i \in 1..Len(href) |-> Lower(href[i])], alt)
ReSearch(pattern, href) == \E alt \in pattern : AltFound(alt, href)

\* if href.startswith("/"): href = self.base_url + href
Resolve(a, href) == IF href # <<>> /\ Head(href) = "/" THEN <<a.base_url>> \o href ELSE href

\* x or y
Or(x, y) == IF x # <<>> THEN x ELSE y

\* soup.select("a[href]")
SelectLinks(anchors) == SelectSeq(anchors, LAMBDA x : x.has_href)
\* soup.select(".coursebox a[href], .course-title a[href], a.coursename")
SelectBoxes(anchors) ==
    SelectSeq(anchors, LAMBDA x : (x.cls \in {"coursebox", "course-title"} /\ x.has_href)
                                  \/ x.cls = "coursename")
\* if not href
NotHref(x) == ~x.has_href \/ x.href = <<>>

ProviderIsKey(a) == <<a.key>>
\* provider=self.display_name
Provider(a) == a.display_name

MakeCourse(a, href, title) == Course(href, title, href, Provider(a), a.subject, a.language)

Outcome(items, exc, fetched) == [items |-> items, exc |-> exc, fetched |-> fetched]

\* ---- EduHub, ALX, SmartEthio, ... : one page, its links filtered
RECURSIVE LinksItems(_, _)
LinksItems(a, sel) ==
    IF sel = <<>> THEN <<>>
    ELSE LET x == Head(sel)
             href == Resolve(a, x.href)
             rest == LinksItems(a, Tail(sel))
         IN  IF NotHref(x) THEN rest
             ELSE IF ContainsSeq(href, <<a.base_url>>) /\ ReSearch(a.pattern, href)
               THEN <<MakeCourse(a, href, Or(x.text, href))>> \o rest
             ELSE rest

IterLinks(a, w) ==
    LET url == <<a.base_url>>
        home == Soup(a, w, url)
    IN  IF home.ok THEN Outcome(LinksItems(a, SelectLinks(home.anchors)), NoExc, <<url>>)
        ELSE IF a.guarded THEN Outcome(<<>>, NoExc, <<url>>)
        ELSE Outcome(<<>>, home.exc, <<url>>)

\* A crawl that a failed detail fetch ends.
RECURSIVE CrawlLoopAborts(_, _, _)
CrawlLoopAborts(a, w, hrefs) ==
    IF hrefs = <<>> THEN [items |-> <<>>, fetched |-> <<>>]
    ELSE LET href == Resolve(a, Head(hrefs))
             rest == CrawlLoopAborts(a, w, Tail(hrefs))
             page == Soup(a, w, href)
             title == IF page.heading # None THEN page.heading ELSE href
         IN  IF Head(hrefs) = <<>> THEN rest
             ELSE IF ~ReSearch(a.pattern, href) THEN rest
             ELSE IF ~page.ok THEN [items |-> <<>>, fetched |-> <<href>>]
             ELSE [items |-> <<MakeCourse(a, href, title)>> \o rest.items,
                   fetched |-> <<href>> \o rest.fetched]

\* ---- LearningGovAdapter: the set of hrefs, sorted, a detail page per link
RECURSIVE CrawlLoop(_, _, _)
CrawlLoop(a, w, hrefs) ==
    IF hrefs = <<>> THEN [items |-> <<>>, fetched |-> <<>>]
    ELSE LET href == Resolve(a, Head(hrefs))
             rest == CrawlLoop(a, w, Tail(hrefs))
             page == Soup(a, w, href)
             title == IF page.heading # None THEN page.heading ELSE href
         IN  IF Head(hrefs) = <<>> THEN rest
             ELSE IF ~ReSearch(a.pattern, href) THEN rest
             ELSE IF ~page.ok THEN [rest EXCEPT !.fetched = <<href>> \o @]
             ELSE [items |-> <<MakeCourse(a, href, title)>> \o rest.items,
                   fetched |-> <<href>> \o rest.fetched]

IterCrawlSorted(a, w) ==
    LET url == <<a.base_url>>
        home == Soup(a, w, url)
        links == {x.href : x \in Range(SelectLinks(home.anchors))}
        r == CrawlLoop(a, w, Sorted(links, a.base_url))
    IN  IF home.ok THEN Outcome(r.items, NoExc, <<url>> \o r.fetched)
        ELSE Outcome(<<>>, home.exc, <<url>>)

\* ---- LearnEthiopiaAdapter: two catalog pages, a seen set, a detail page per link
RECURSIVE CatalogLoop(_, _, _, _)
CatalogLoop(a, w, sel, seen) ==
    IF sel = <<>> THEN [items |-> <<>>, fetched |-> <<>>, seen |-> seen]
    ELSE LET x == Head(sel)
             href == Resolve(a, x.href)
             page == Soup(a, w, href)
             title == IF page.ok /\ page.heading # None THEN page.heading ELSE Or(x.text, href)
         IN  IF NotHref(x) THEN CatalogLoop(a, w, Tail(sel), seen)
             ELSE IF ~ContainsSeq(href, <<a.base_url>>) \/ href \in seen
               THEN CatalogLoop(a, w, Tail(sel), seen)
             ELSE IF ~ReSearch(a.pattern, href) THEN CatalogLoop(a, w, Tail(sel), seen)
             ELSE LET rest == CatalogLoop(a, w, Tail(sel), seen \cup {href})
                  IN  [items |-> <<MakeCourse(a, href, title)>> \o rest.items,
                       fetched |-> <<href>> \o rest.fetched,
                       seen |-> rest.seen]

CatalogPage(a, w, url, seen) ==
    LET page == Soup(a, w, url)
        r == CatalogLoop(a, w, SelectLinks(page.anchors), seen)
    IN  IF page.ok THEN [r EXCEPT !.fetched = <<url>> \o @]
        ELSE [items |-> <<>>, fetched |-> <<url>>, seen |-> seen]

IterCatalogDetail(a, w) ==
    LET first == CatalogPage(a, w, <<a.base_url>>, {})
        second == CatalogPage(a, w, AltUrl(a), first.seen)
    IN  Outcome(first.items \o second.items, NoExc, first.fetched \o second.fetched)

\* ---- ELearnETHAdapter: two index pages, every course box taken
RECURSIVE BoxItems(_, _)
BoxItems(a, sel) ==
    IF sel = <<>> THEN <<>>
    ELSE LET x == Head(sel)
             href == Resolve(a, x.href)
             rest == BoxItems(a, Tail(sel))
         IN  IF NotHref(x) THEN rest
             ELSE <<MakeCourse(a, href, Or(x.text, href))>> \o rest

IndexPage(a, w, url) ==
    LET page == Soup(a, w, url)
    IN  IF page.ok THEN BoxItems(a, SelectBoxes(page.anchors)) ELSE <<>>

IterMoodle(a, w) ==
    Outcome(IndexPage(a, w, AltUrl(a)) \o IndexPage(a, w, <<a.base_url>>), NoExc,
            <<AltUrl(a), <<a.base_url>>>>)

\* list(adapter.iter_courses()) for the adapter a on the web w
IterCourses(a, w) ==
    CASE a.shape = "links" -> IterLinks(a, w)
      [] a.shape = "crawl_sorted" -> IterCrawlSorted(a, w)
      [] a.shape = "catalog_detail" -> IterCatalogDetail(a, w)
      [] a.shape = "moodle" -> IterMoodle(a, w)
      [] OTHER -> Outcome(<<>>, NoExc, <<>>)

NotRun == [items |-> <<>>, exc |-> "not run", fetched |-> <<>>]

\* The adapter and the web it meets: the home page fails or holds up to
\* MaxAnchors anchors; a stub adapter fetches nothing.
AdapterInit ==
    /\ produced = NotRun
    /\ ad_key \in SourceKeys
    /\ LET a == AdapterOf(ad_key)
       IN  IF a.shape = "stub" THEN web = NoWeb
           ELSE \E kind \in AltKinds(a), d \in IntroChoices(a), e \in OtherChoices(a) :
                  \/ \E err \in SoupErrors : web = WebOf(PageFails(err), kind, d, e)
                  \/ \E n \in 0..MaxAnchors : \E l \in [1..n -> AnchorsOf(a)] :
                       web = WebOf(Catalog(l), kind, d, e)

IterCoursesCall ==
    /\ produced = NotRun
    /\ produced' = IterCourses(AdapterOf(ad_key), web)
    /\ UNCHANGED <<ad_key, web, getVars, regVars, runVars>>

(***************************************************************************)
(* The specifications.                                                     *)
(***************************************************************************)
GetIdle == gstate = "idle" /\ attempt_number = 0 /\ outcomes = <<>> /\ slept = <<>> /\ gresult = NoResult
RegIdle == reg_calls = <<>> /\ reg_insts = <<>> /\ listing = NoListing
RunIdle ==
    /\ args = [site |-> NoSite, all |-> FALSE, list_sites |-> FALSE, out |-> <<"data", "courses.csv">>]
    /\ pc = "idle" /\ loop_i = 0 /\ courses = <<>> /\ invoked = <<>> /\ warnings = <<>>
    /\ stdout = <<>> /\ stderr = <<>> /\ exit_code = NoExit /\ fs = EmptyFs
AdIdle == ad_key = "learninggov" /\ web = NoWeb /\ produced = NotRun

\* One call of get(url).
InitGet == GetInit /\ ADAPTERS = <<>> /\ RegIdle /\ RunIdle /\ AdIdle
NextGet == GetAttempt \/ GetSleep
SpecGet == InitGet /\ [][NextGet]_vars

\* The module's @register calls, then one listing or lookup.
InitRegistry == RegistryInit /\ GetIdle /\ RunIdle /\ AdIdle
NextRegistry == RegisterCall \/ ListCall \/ LookupCall
SpecRegistry == InitRegistry /\ [][NextRegistry]_vars

\* One command line invocation over a registry.
Init == ADAPTERS \in Registries /\ RegIdle /\ RunInit /\ GetIdle /\ AdIdle
Next == Main \/ RunOne \/ RunAllIter \/ RunAllReturn \/ WriteCsv
Spec == Init /\ [][Next]_vars

\* The same, the interpreter always taking the program's next step.
SpecLive == Init /\ [][Next]_vars /\ WF_vars(Next)

\* One call of write_csv(rows, out_path) on an empty file system.
InitSink ==
    /\ courses \in RecordLists
    /\ args \in {[site |-> NoSite, all |-> TRUE, list_sites |-> FALSE, out |-> o] : o \in OutChoices}
    /\ pc = "write" /\ loop_i = 1 /\ invoked = <<>> /\ warnings = <<>>
    /\ stdout = <<>> /\ stderr = <<>> /\ exit_code = NoExit /\ fs = EmptyFs
    /\ ADAPTERS = <<>> /\ RegIdle /\ GetIdle /\ AdIdle
NextSink == WriteCsv
SpecSink == InitSink /\ [][NextSink]_vars

\* One adapter's iter_courses() on one web.
InitAdapter == AdapterInit /\ ADAPTERS = <<>> /\ RegIdle /\ RunIdle /\ GetIdle
NextAdapter == IterCoursesCall
SpecAdapter == InitAdapter /\ [][NextAdapter]_vars

(***************************************************************************)
(* The claims.                                                             *)
(***************************************************************************)
\* The run is the all-sources run / the single-source run.
InRunAll == MainBranch(args) = "run_all" /\ pc # "main"
InRunOne == MainBranch(args) = "run_one" /\ pc \notin {"main", "run_one"}

\* The registry entries run_all is through with.
\* After run_all: all of them, or, when an exception left run_all, those up to
\* the adapter that raised it (loop_i stays on it).
EscapedRunAll == pc = "exited" /\ loop_i <= Len(ADAPTERS)
Processed ==
    IF pc = "run_all" THEN SubSeq(ADAPTERS, 1, loop_i - 1)
    ELSE IF EscapedRunAll THEN SubSeq(ADAPTERS, 1, loop_i)
    ELSE ADAPTERS
Attempted == SelectSeq(Processed, LAMBDA e : e.key # BASE_KEY)
Failing == SelectSeq(Attempted, LAMBDA e : e.raises # NoExc)

RECURSIVE Concat(_)
Concat(ss) == IF ss = <<>> THEN <<>> ELSE Head(ss) \o Concat(Tail(ss))

\* C1: in an all-sources run, whatever exception an adapter's iter_courses()
\* raises and wherever it raises it (before the first record or after some),
\* the exception does not escape run_all, the adapter contributes no record
\* (not even those it yielded before failing), a warning with its display name
\* is logged, and every adapter registered after it is still invoked and its
\* records are in the result; run with the default output path, the process
\* then exits successfully.
C1_RunAllIsolatesFailures ==
    InRunAll =>
      /\ ~EscapedRunAll
      /\ warnings = [i \in 1..Len(Failing) |-> [name |-> Failing[i].display_name, err |-> Failing[i].raises]]
      /\ \A i \in 1..Len(Failing) : \A j \in 1..Len(courses) :
            courses[j].provider # Failing[i].display_name
      /\ invoked = KeysOf(Attempted)
      /\ (pc \in {"write", "exited"} =>
            /\ Len(Processed) = Len(ADAPTERS)
            /\ \A i \in 1..Len(Attempted) : Attempted[i].raises = NoExc =>
                 \A k \in 1..Len(Attempted[i].yields) :
                    \E j \in 1..Len(courses) : courses[j] = Attempted[i].yields[k])
      /\ (pc = "exited" /\ args.out = <<"data", "courses.csv">> => exit_code = 0)

\* What the transport failures of C2 and C3 are: a network exception, a
\* timeout, a status of 400 or more.
IsFailure(o) ==
    \/ o.kind = "exception" /\ o.exc \in {"ConnectionError", "Timeout"}
    \/ o.kind = "response" /\ o.status >= 400
AllFail(outs) == \A i \in 1..Len(outs) : IsFailure(outs[i])
LastFailure(outs) ==
    IF outs[Len(outs)].kind = "exception" THEN outs[Len(outs)].exc ELSE "ScrapeError"
IsPrefix(s, t) == Len(s) <= Len(t) /\ s = SubSeq(t, 1, Len(s))

C2_Attempts ==
    AllFail(outcomes) =>
      /\ attempt_number <= 3
      /\ IsPrefix(slept, <<1, 2>>)
      /\ \A i \in 1..Len(slept) : slept[i] <= 8
      /\ (Len(outcomes) = 3 => gstate = "raised")
      /\ (gstate \in {"returned", "raised"} =>
            gstate = "raised" /\ attempt_number = 3 /\ slept = <<1, 2>>)

\* C2 as stated: after 3 failed attempts, with waits of 1s and 2s, get()
\* raises ScrapeError or the transport's RequestException.
C2_Original ==
    /\ C2_Attempts
    /\ (AllFail(outcomes) /\ gstate = "raised" =>
          gresult.exc \in {"ScrapeError", "RequestException", "ConnectionError", "Timeout"})

\* C2, amended: a transport that fails at every attempt gets exactly 3
\* attempts, with waits of 1s then 2s, never a 4th, and get() then raises the
\* retry decorator's RetryError, which carries the last attempt's ScrapeError
\* or RequestException.
C2_RaisesRetryErrorAfterThree ==
    /\ C2_Attempts
    /\ (AllFail(outcomes) /\ gstate = "raised" =>
          gresult.exc = "RetryError" /\ gresult.last = LastFailure(outcomes))

C2_Witness ==
    /\ gstate = "raised" /\ AllFail(outcomes) /\ attempt_number = 3 /\ slept = <<1, 2>>
    /\ outcomes[1].kind = "exception" /\ outcomes[3].kind = "response"

\* k failures and then a response below 400
FailsThenSucceeds(outs) ==
    /\ outs # <<>>
    /\ AllFail(SubSeq(outs, 1, Len(outs) - 1))
    /\ outs[Len(outs)].kind = "response" /\ outs[Len(outs)].status < 400

\* C3: a transport that fails k times (k in 0..2) and then answers with a
\* status below 400 makes get() return that answer after exactly k+1
\* attempts, at most 3, without raising; get() returns nothing else.
C3_ReturnsFirstSuccess ==
    /\ FailsThenSucceeds(outcomes) =>
         /\ gstate = "returned"
         /\ gresult.kind = "response" /\ gresult.status = outcomes[Len(outcomes)].status
         /\ attempt_number = Len(outcomes)
         /\ attempt_number <= 3
         /\ Len(slept) = Len(outcomes) - 1
    /\ gstate = "returned" => FailsThenSucceeds(outcomes)

C3_Witness ==
    /\ gstate = "returned" /\ attempt_number = 3
    /\ AllFail(SubSeq(outcomes, 1, 2)) /\ outcomes[3].status = 399

\* C4: an adapter whose is_allowed() answers false never has its
\* iter_courses() invoked by run_one or run_all.
C4_DisallowedNeverInvoked ==
    \A i \in 1..Len(invoked) : DictGet(ADAPTERS, invoked[i]).allowed

\* C5: run_all returns the concatenation, in registration order, of the whole
\* output of every adapter that did not raise, each in the order it was
\* yielded, with nothing dropped or merged across sources.
C5_RunAllConcatenates ==
    InRunAll =>
      courses = Concat([i \in 1..Len(Attempted) |->
                          IF Attempted[i].raises = NoExc THEN Attempted[i].yields ELSE <<>>])

\* Two sources that yield the same ids: all four records are in the result.
C5_Witness ==
    /\ InRunAll /\ pc = "write"
    /\ Len(courses) = 4
    /\ courses[1].course_id = courses[3].course_id
    /\ courses[1].provider # courses[3].provider
    /\ courses[1].course_id # courses[2].course_id

\* C6: run_one with a key that is not registered ends with the unknown-source
\* error and invokes no adapter; with a registered key it invokes that one
\* adapter once and returns its whole output in order; the sink is written
\* only after that, with the whole output.
C6_RunOne ==
    /\ InRunOne =>
         LET key == args.site.value
             registered == \E i \in 1..Len(ADAPTERS) : ADAPTERS[i].key = key
             the == ADAPTERS[CHOOSE i \in 1..Len(ADAPTERS) : ADAPTERS[i].key = key]
         IN  /\ ~registered =>
                  /\ invoked = <<>> /\ courses = <<>> /\ fs = EmptyFs
                  /\ pc = "exited" /\ exit_code = 1 /\ stderr = <<MSG_UNKNOWN>>
             /\ registered =>
                  /\ invoked = <<key>>
                  /\ the.raises = NoExc => courses = the.yields
                  /\ the.raises # NoExc => fs = EmptyFs /\ pc = "exited"
                  /\ fs.files # {} =>
                       /\ pc = "exited"
                       /\ fs.files = {[path |-> args.out, content |-> CsvFile(the.yields)]}
    /\ MainBranch(args) = "run_one" /\ pc \in {"main", "run_one"} => invoked = <<>> /\ fs = EmptyFs

C6_Witness ==
    /\ InRunOne /\ pc = "exited" /\ exit_code = 0
    /\ Len(ADAPTERS) = 2 /\ ADAPTERS[2].key = args.site.value
    /\ Len(courses) = 2 /\ invoked = <<args.site.value>>
    /\ fs.files # {}

Quiet == invoked = <<>> /\ fs = EmptyFs /\ pc \in {"main", "exited"}
ListsAndExits0 ==
    args.list_sites =>
      /\ Quiet
      /\ (pc = "exited" =>
            /\ exit_code = 0
            /\ stdout = <<Line("Available site keys:", "", <<>>, 0)>> \o
                 [i \in 1..Len(SelectSeq(ADAPTERS, LAMBDA e : e.key # "base")) |->
                    Line("  {k:20s} -> {a.display_name}",
                         SelectSeq(ADAPTERS, LAMBDA e : e.key # "base")[i].key,
                         SelectSeq(ADAPTERS, LAMBDA e : e.key # "base")[i].display_name, 0)])

\* C7 as stated: --site X with --all exits non-zero before any adapter runs;
\* neither --site nor --all (and no --list-sites) exits non-zero; --list-sites
\* prints the keys, runs no adapter and exits 0.
C7_Original ==
    /\ (args.site.given /\ args.all => Quiet /\ (pc = "exited" => exit_code # 0))
    /\ (~args.site.given /\ ~args.all /\ ~args.list_sites => Quiet /\ (pc = "exited" => exit_code # 0))
    /\ ListsAndExits0

\* C7, amended: without --list-sites, a non-empty --site X together with
\* --all exits non-zero before any adapter is invoked, and so does an
\* invocation with no (or an empty) --site and no --all; with --list-sites,
\* whatever the other flags, the registered keys but "base" are printed, no
\* adapter is invoked and the exit is 0.
C7_UsageErrorsBeforeAnyAdapter ==
    /\ (Truthy(args.site) /\ args.all /\ ~args.list_sites =>
          Quiet /\ (pc = "exited" => exit_code = 1 /\ stderr = <<MSG_BOTH>>))
    /\ (~Truthy(args.site) /\ ~args.all /\ ~args.list_sites =>
          Quiet /\ (pc = "exited" => exit_code = 1 /\ stderr = <<MSG_NEITHER>>))
    /\ ListsAndExits0

C7_Witness ==
    /\ pc = "exited" /\ exit_code = 1 /\ stderr = <<MSG_BOTH>>
    /\ args.site = Site("a") /\ args.all /\ ~args.list_sites
    /\ \E i \in 1..Len(ADAPTERS) : ADAPTERS[i].key = "a"

\* C8: a usage error, an unknown --site key and an adapter that fails in
\* --site mode each end the process with a non-zero exit and a one-line
\* message, the sink never opened.
C8_FatalIsOneLineAndNoFile ==
    (pc = "exited" /\ exit_code # 0 /\ MainBranch(args) \in {"usage_both", "usage_neither", "run_one"}
       /\ stderr # TracebackLines("FileNotFoundError"))
      => Len(stderr) = 1 /\ fs = EmptyFs

\* C9: every record an adapter yields has the adapter's display name as its
\* provider and a url that is not empty.
C9_ProviderAndUrl ==
    \A i \in 1..Len(produced.items) :
       /\ produced.items[i].provider = SourceAdapters[CHOOSE j \in 1..Len(SourceAdapters) : SourceAdapters[j].key = ad_key].display_name
       /\ produced.items[i].url # <<>>
       /\ produced.items[i].url # None

C9_Witness ==
    /\ ad_key = "kubaya"
    /\ Len(produced.items) = 2
    /\ produced.items[1].provider = <<"Kubaya Learning">>
    /\ produced.items[1].url = <<"https://kubayalearning.com", "/", "about">>

\* The keys of calls, each at its first occurrence.
RECURSIVE FirstOccurrences(_)
FirstOccurrences(calls) ==
    IF calls = <<>> THEN <<>>
    ELSE LET before == FirstOccurrences(SubSeq(calls, 1, Len(calls) - 1))
             k == calls[Len(calls)]
         IN  IF k \in Range(before) THEN before ELSE Append(before, k)

\* C10: after any register calls, the listing gives the registered keys in
\* the order of their first registration, without "base"; the lookup of a key
\* never registered finds nothing.
C10_ListingOrder ==
    /\ listing.op = "list" =>
         listing.keys = SelectSeq(FirstOccurrences(reg_calls), LAMBDA k : k # "base")
    /\ listing.op = "get" => (listing.found <=> listing.key \in Range(reg_calls))

C10_Witness ==
    /\ listing.op = "list"
    /\ reg_calls = <<"b", "base", "a", "b">>
    /\ listing.keys = <<"b", "a">>

\* The adapter of the run, and whether every catalog page it reads is out of
\* reach (get() raised after its retries).
TheAdapter == AdapterOf(ad_key)
Ran == produced # NotRun
CatalogUnreachable ==
    /\ TheAdapter.shape # "stub"
    /\ ~web.home.ok /\ web.home.exc = "RetryError"
    /\ ~web.alt.ok /\ web.alt.exc = "RetryError"

\* C11: for every registered adapter, when the fetch of its base / catalog
\* page fails for good, iter_courses() gives the empty sequence and raises
\* nothing to its caller.
C11_BasePageFailureGivesEmpty ==
    (Ran /\ CatalogUnreachable) => produced.exc = NoExc /\ produced.items = <<>>

\* The run collected its records and went on to the sink.
ReachedSink ==
    /\ pc = "exited"
    /\ \/ InRunAll /\ ~EscapedRunAll
       \/ InRunOne /\ HasKey(ADAPTERS, args.site.value)
                   /\ DictGet(ADAPTERS, args.site.value).raises = NoExc

\* C12: write_csv succeeds for every --out path whose parent directories do
\* not exist yet, creating them, a path with no directory component included:
\* no run fails at the sink after its records were collected.
C12_SinkCreatesParentDirs ==
    ReachedSink =>
      /\ exit_code = 0
      /\ \E f \in fs.files : f.path = args.out
      /\ \A n \in 1..Len(Dirname(args.out)) : SubSeq(args.out, 1, n) \in fs.dirs

\* csv.reader over the text of a file opened with newline="".  CsvReadRecord
\* reads one record: mode is the reader's state, field and row what was read
\* of the current field and record; it gives the record's fields, whether the
\* line was blank, and the text after the record.
AfterBreak(c, rest) == IF c = CR /\ rest # <<>> /\ Head(rest) = LF THEN Tail(rest) ELSE rest
RECURSIVE CsvReadRecord(_, _, _, _)
CsvReadRecord(text, mode, field, row) ==
    IF text = <<>>
      THEN [row |-> Append(row, field), blank |-> mode = "start_record", rest |-> <<>>]
    ELSE LET c == Head(text)
             rest == Tail(text)
         IN  CASE mode = "in_quoted" ->
                    IF c = QUOTECHAR THEN CsvReadRecord(rest, "quote_in_quoted", field, row)
                    ELSE CsvReadRecord(rest, "in_quoted", Append(field, c), row)
               [] mode = "quote_in_quoted" /\ c = QUOTECHAR ->
                    CsvReadRecord(rest, "in_quoted", Append(field, c), row)
               [] mode \in {"start_record", "start_field"} /\ c = QUOTECHAR ->
                    CsvReadRecord(rest, "in_quoted", field, row)
               [] OTHER ->
                    IF c = DELIMITER THEN CsvReadRecord(rest, "start_field", <<>>, Append(row, field))
                    ELSE IF c \in {CR, LF}
                      THEN [row |-> Append(row, field), blank |-> mode = "start_record",
                            rest |-> AfterBreak(c, rest)]
                    ELSE CsvReadRecord(rest, "in_field", Append(field, c), row)

\* list(csv.reader(f)) without the blank lines, which DictReader skips
RECURSIVE CsvRead(_)
CsvRead(text) ==
    IF text = <<>> THEN <<>>
    ELSE LET r == CsvReadRecord(text, "start_record", <<>>, <<>>)
         IN  (IF r.blank THEN <<>> ELSE <<r.row>>) \o CsvRead(r.rest)

\* The file write_csv left, read back.
Written == {f \in fs.files : f.path = args.out}
ReadBack == CsvRead((CHOOSE f \in Written : TRUE).content)
Columns ==
    <<"course_id", "course_title", "url", "is_paid", "price", "num_subscribers",
      "num_reviews", "num_lectures", "level", "content_duration", "published_timestamp",
      "subject", "provider", "language">>

\* C13: the file write_csv leaves reads back as one header row, the 14 column
\* names in the stated order, followed by one row per Record in list order
\* whose fields are the Record's values, a None read back as the empty string.
C13_CsvRoundTrip ==
    Written # {} =>
      ReadBack = << [k \in 1..14 |-> <<Columns[k]>>] >> \o
                 [i \in 1..Len(courses) |->
                    [k \in 1..14 |->
                       IF courses[i][Columns[k]] = None THEN <<>> ELSE courses[i][Columns[k]]]]

\* Three Records: a title with a line break, one with quotes, one with the
\* delimiter; optional fields None, empty and set.
C13_Witness ==
    /\ Written # {} /\ pc = "exited" /\ exit_code = 0
    /\ Len(courses) = 3
    /\ courses[1].course_title = <<"Line1", CR, LF, "Line2">> /\ courses[1].subject = <<"K12">>
    /\ courses[2].course_title = <<"The ", QUOTECHAR, "Web", QUOTECHAR>> /\ courses[2].language = <<>>
    /\ courses[3].course_title = <<"Data", DELIMITER, " AI">> /\ courses[3].subject = None
    /\ Len(ReadBack) = 4

\* The all-sources run is over: run_all returned.
RunAllOver == InRunAll /\ pc \in {"write", "exited"}
RunAllTerminates == (MainBranch(args) = "run_all") ~> (pc = "exited")

\* C14: every all-sources run terminates, and when it ends every registered
\* adapter has been invoked exactly once, in registration order, whether it
\* succeeded or failed; none is invoked before its turn, and a failed one is
\* never invoked again.  (The cap of 3 attempts inside one fetch call is the
\* subject of C2 and C3.)
C14_EachAdapterOnceAndTerminates ==
    /\ [](InRunAll => \A i \in 1..Len(invoked) : \A j \in 1..Len(invoked) :
                         invoked[i] = invoked[j] => i = j)
    /\ [](RunAllOver => invoked = KeysOf(ADAPTERS))
    /\ RunAllTerminates

\* The adapters that fetch a detail page per candidate link, the catalog pages
\* such an adapter got, and its candidate links: the hrefs of those pages,
\* resolved, that pass the adapter's link filter.
DetailFetching == TheAdapter.shape \in {"crawl_sorted", "catalog_detail"}
CatalogAnchors ==
    (IF web.home.ok THEN Range(web.home.anchors) ELSE {}) \cup
    (IF TheAdapter.shape = "catalog_detail" /\ web.alt.ok THEN Range(web.alt.anchors) ELSE {})
PassesFilter(x) ==
    /\ x.has_href /\ x.href # <<>>
    /\ ReSearch(TheAdapter.pattern, Resolve(TheAdapter, x.href))
    /\ (TheAdapter.shape = "catalog_detail" =>
          ContainsSeq(Resolve(TheAdapter, x.href), <<TheAdapter.base_url>>))
Candidates == {x \in CatalogAnchors : PassesFilter(x)}
CandidateUrls == {Resolve(TheAdapter, x.href) : x \in Candidates}
DetailOf(url) == Soup(TheAdapter, web, url)
UrlsOf(items) == {items[i].url : i \in 1..Len(items)}

\* C15: in LearningGovAdapter and LearnEthiopiaAdapter a detail page that
\* cannot be fetched or parsed is that item's failure only: iter_courses()
\* does not raise, every candidate link is still processed, and every
\* candidate whose own detail page is read yields its Record.
C15_DetailFailureIsPerItem ==
    (Ran /\ DetailFetching /\ (TheAdapter.shape = "crawl_sorted" => web.home.ok)) =>
      /\ produced.exc = NoExc
      /\ CandidateUrls \subseteq Range(produced.fetched)
      /\ \A u \in CandidateUrls : DetailOf(u).ok => u \in UrlsOf(produced.items)

\* LearningGovAdapter: the first candidate's detail page fails, the one
\* after it is fetched and yields its Record.
C15_Witness ==
    /\ Ran /\ ad_key = "learninggov" /\ web.home.ok
    /\ ~web.other.ok /\ web.intro.ok
    /\ produced.fetched = << <<"https://learning.gov.et">>,
                             <<"https://learning.gov.et", "/", "Training">>,
                             <<"https://learning.gov.et", "/", "course", "/", "intro">> >>
    /\ UrlsOf(produced.items) = { <<"https://learning.gov.et", "/", "course", "/", "intro">> }

\* C16: whatever the pages hold (the same link several times, a relative and
\* an absolute form of one link), no two Records of one iter_courses() run
\* have the same course_id.
C16_UniqueCourseIds ==
    \A i, j \in 1..Len(produced.items) :
       produced.items[i].course_id = produced.items[j].course_id => i = j

\* The title the three-level fallback gives the candidate anchor x.
FallbackTitle(x) ==
    LET u == Resolve(TheAdapter, x.href)
    IN  IF DetailOf(u).ok /\ DetailOf(u).heading # None THEN DetailOf(u).heading
        ELSE IF x.text # <<>> THEN x.text
        ELSE u

\* C17: in a detail-fetching adapter every candidate link yields exactly one
\* Record; its title is the detail page's first heading when that page is
\* fetched and has one, else the anchor's text when not empty, else the URL;
\* so no Record has an empty title.
C17_TitleFallback ==
    (Ran /\ DetailFetching /\ produced.exc = NoExc) =>
      /\ \A u \in CandidateUrls :
            Cardinality({i \in 1..Len(produced.items) : produced.items[i].url = u}) = 1
      /\ \A i \in 1..Len(produced.items) :
            /\ produced.items[i].course_title # <<>>
            /\ \E x \in Candidates :
                 /\ Resolve(TheAdapter, x.href) = produced.items[i].url
                 /\ produced.items[i].course_title = FallbackTitle(x)

\* The adapters that discover links by the heuristic policy (ELearnETHAdapter
\* among them: its selector takes every link of a course box), and what it is
\* for a URL to be of the adapter's origin: it is the base URL, or the base
\* URL followed by a path.
Heuristic == TheAdapter.shape \in {"links", "crawl_sorted", "catalog_detail", "moodle"}
SameOrigin(url) ==
    /\ url # <<>> /\ Head(url) = TheAdapter.base_url
    /\ Len(url) > 1 => url[2] = "/"

\* C18: every Record of a heuristic adapter has a url of the adapter's own
\* origin that matches its keyword pattern; a link to another origin gives no
\* Record, whatever words it holds.
C18_SameOriginAndKeyword ==
    (Ran /\ Heuristic) =>
      \A i \in 1..Len(produced.items) :
         /\ SameOrigin(produced.items[i].url)
         /\ ReSearch(TheAdapter.pattern, produced.items[i].url)

\* The calls of register() that registered under the key k, in call order.
CallsFor(k) == SelectSeq(reg_insts, LAMBDA inst : inst.key = k)
RegisteredKeys == {reg_insts[i].key : i \in 1..Len(reg_insts)}

\* C19: registering under a key the registry already holds raises nothing and
\* replaces that entry: the registry has exactly one entry per registered key,
\* the lookup of a key gives the instance registered last under it, and the
\* entries under the other keys are what they were.
C19_DuplicateKeyOverwrites ==
    /\ Len(ADAPTERS) = Cardinality(RegisteredKeys)
    /\ \A k \in RegisteredKeys :
         /\ Cardinality({i \in 1..Len(ADAPTERS) : ADAPTERS[i].key = k}) = 1
         /\ DictGet(ADAPTERS, k) = CallsFor(k)[Len(CallsFor(k))]

\* A key registered twice with different instances, another key in between.
C19_Witness ==
    /\ Len(reg_insts) = 3
    /\ reg_insts[1].key = "a" /\ reg_insts[2].key = "b" /\ reg_insts[3].key = "a"
    /\ reg_insts[1] # reg_insts[3]
    /\ ADAPTERS = <<reg_insts[3], reg_insts[2]>>

====
